---- MODULE Spec2Model ----
(***************************************************************************)
(* Phase-based timeout supervisor (source/utils/timed-out.ts).             *)
(*                                                                         *)
(* One request, its socket and its response are event emitters.  attach    *)
(* (the default export) subscribes to lifecycle signals, arms timers with  *)
(* addTimeout and returns cancelTimeouts.  Every event-loop turn (a signal *)
(* delivered by the environment, a timer elapse, a deferred callback, a    *)
(* call of a returned handle) is one action.                               *)
(***************************************************************************)
EXTENDS Naturals, Sequences, FiniteSets

VARIABLES
    delays,      \* the Delays argument captured by attach (a partial map)
    options,     \* the TimedOutOptions argument captured by attach
    socketPath,  \* truthiness of request.socketPath
    reentry,     \* request[reentry]: the marker on the request
    timers,      \* every timer addTimeout created (setTimeout + setImmediate)
    cancelers,   \* the cancelers array
    handlers,    \* the unhandler's list of registrations
    listeners,   \* listeners this module installed on request/socket/response
    log,         \* what the supervisor did to the request: emit error, abort
    cancelCalls, \* how often cancelTimeouts has run: "never", "once", "again"
    detachedBy,  \* the turn in which cancelTimeouts first ran
    socket,      \* the socket delivered by the 'socket' signal, or NoSocket
    noop         \* the handle of a re-entrant attach: "none", "returned", "invoked"

vars == <<delays, options, socketPath, reentry, timers, cancelers, handlers,
          listeners, log, cancelCalls, detachedBy, socket, noop>>

----------------------------------------------------------------------------
(* Bounds of the model *)

\* Thresholds are drawn from {0, MaxDelay}.
MaxDelay == 1

\* At most this many phases carry a delay in one DelayConfig.
MaxConfigured == 1

----------------------------------------------------------------------------
(* Inputs *)

Phases == {"lookup", "connect", "secureConnect", "socket", "send", "response", "request"}

DelayValues == {0, MaxDelay}

\* A Delays object: the phases it defines are its domain (absent = undefined).
DelayConfigs ==
    UNION {[S -> DelayValues] : S \in {T \in SUBSET Phases : Cardinality(T) <= MaxConfigured}}

\* "" stands for an undefined (or empty) host name: both are falsy in `hostname || host`.
HostNames == {"", "127.0.0.1", "example.com"}

\* options.host is drawn from fewer values: it is read only when hostname is falsy.
Hosts == {"", "127.0.0.1"}

\* The DelayConfig that defines every phase, as in the test 'no more timeouts
\* after an error'.
EveryPhase == {[p \in Phases |-> MaxDelay]}

\* The DelayConfigs of the runs that attach repeatedly: a single phase or none,
\* as in the test 'double calling timedOut has no effect'.
ReentryConfigs == {d \in DelayConfigs : \A p, q \in DOMAIN d : p = q}

Protocols == {"http:", "https:"}

OptionsSet == [host : Hosts, hostname : HostNames, protocol : Protocols]

NoSocket == [connecting |-> FALSE, address |-> FALSE, present |-> FALSE]

Sockets == [connecting : BOOLEAN, address : BOOLEAN, present : {TRUE}]

\* net.isIP applied to a host string ("" models undefined: net.isIP(undefined) is 0).
isIP(h) == h = "127.0.0.1"

HangUp == "socket hang up"

ErrorMessages == {HangUp, "oh, snap!"}

LookupResults == {"null", "ENOTFOUND"}

----------------------------------------------------------------------------
(* The supervisor's mutable state, passed through the handlers as a record *)

State ==
    [timers |-> timers, cancelers |-> cancelers, handlers |-> handlers,
     listeners |-> listeners, log |-> log, cancelCalls |-> cancelCalls]

\* class TimeoutError: message is `Timeout awaiting '${event}' for ${threshold}ms`.
TimeoutError(threshold, event) ==
    [name |-> "TimeoutError", code |-> "ETIMEDOUT", event |-> event,
     threshold |-> threshold, message |-> "Timeout awaiting"]

\* Any other error the request emits.
OtherError(message) ==
    [name |-> "Error", code |-> "", event |-> "", threshold |-> 0, message |-> message]

AbortEntry == [op |-> "abort", error |-> OtherError("")]

EmitEntry(error) == [op |-> "emit", error |-> error]

\* A listener function: a closure of attach, named after its role.
Fn(name) == [name |-> name, id |-> 0]

\* The cancel closure returned by the id-th addTimeout call.
CancelFn(id) == [name |-> "cancel", id |-> id]

\* `hostname || host`
HostOf(o) == IF o.hostname # "" THEN o.hostname ELSE o.host

----------------------------------------------------------------------------
(* unhandler(): once / unhandleAll, and the emitter's removeListener *)

\* EventEmitter.removeListener: removes the most recently added matching listener.
RECURSIVE removeListenerAt(_, _, _, _, _)
removeListenerAt(ls, origin, event, fn, i) ==
    IF i = 0 THEN ls
    ELSE IF ls[i].origin = origin /\ ls[i].event = event /\ ls[i].fn = fn
         THEN SubSeq(ls, 1, i - 1) \o SubSeq(ls, i + 1, Len(ls))
         ELSE removeListenerAt(ls, origin, event, fn, i - 1)

removeListener(s, origin, event, fn) ==
    [s EXCEPT !.listeners = removeListenerAt(@, origin, event, fn, Len(@))]

\* origin.once(event, fn); handlers.push({origin, event, fn})
once(s, origin, event, fn) ==
    [s EXCEPT !.listeners = Append(@, [origin |-> origin, event |-> event, fn |-> fn, once |-> TRUE]),
              !.handlers = Append(@, [origin |-> origin, event |-> event, fn |-> fn])]

RECURSIVE unhandleFrom(_, _)
unhandleFrom(s, i) ==
    IF i > Len(s.handlers) THEN s
    ELSE unhandleFrom(removeListener(s, s.handlers[i].origin, s.handlers[i].event, s.handlers[i].fn), i + 1)

\* for (const handler of handlers) origin.removeListener(event, fn); handlers.length = 0
unhandleAll(s) == [unhandleFrom(s, 1) EXCEPT !.handlers = <<>>]

----------------------------------------------------------------------------
(* addTimeout and its cancel *)

\* timers.setTimeout(...) armed, immediate not yet set; cancelers.push(cancel)
addTimeout(s, delay, label) ==
    [s EXCEPT !.timers = Append(@, [label |-> label, delay |-> delay,
                                    timeout |-> "armed", immediate |-> "unset"]),
              !.cancelers = Append(@, CancelFn(Len(s.timers) + 1))]

\* timers.clearTimeout(timeout)
clearTimeout(t) == IF t.timeout = "armed" THEN [t EXCEPT !.timeout = "cleared"] ELSE t

\* timers.clearImmediate(immediate)
clearImmediate(t) == IF t.immediate = "queued" THEN [t EXCEPT !.immediate = "cleared"] ELSE t

\* cancel without clearImmediate: a callback already deferred still runs.
cancelTimeoutOnly(s, id) == [s EXCEPT !.timers[id] = clearTimeout(@)]

\* const cancel = () => { clearTimeout(timeout); clearImmediate(immediate); }
cancel(s, id) == [s EXCEPT !.timers[id] = clearImmediate(clearTimeout(@))]

\* A canceler loop that forgets the idle-timeout remover: only timers are canceled.
runCancelerTimersOnly(s, c) ==
    IF c.name = "cancel" THEN cancel(s, c.id) ELSE s

\* A remover that clears every 'timeout' listener of the request, not only its own.
runCancelerRemoveAll(s, c) ==
    IF c.name = "cancel"
    THEN cancel(s, c.id)
    ELSE [s EXCEPT !.listeners =
            SelectSeq(@, LAMBDA l : ~(l.origin = "request" /\ l.event = "timeout"))]

\* A canceler: a timer's cancel, or the remover of the idle-timeout listener.
runCanceler(s, c) ==
    IF c.name = "cancel"
    THEN cancel(s, c.id)
    ELSE removeListener(s, "request", "timeout", Fn("socketTimeoutHandler"))

RECURSIVE cancelFrom(_, _)
cancelFrom(s, i) ==
    IF i > Len(s.cancelers) THEN s
    ELSE cancelFrom(runCanceler(s, s.cancelers[i]), i + 1)

\* cancelTimeouts whose loop starts at the second canceler.
cancelTimeoutsSkipFirst(s) ==
    [unhandleAll(cancelFrom(s, 2)) EXCEPT
        !.cancelCalls = IF @ = "never" THEN "once" ELSE "again"]

\* cancelTimeouts without unhandleAll: timers are cleared, listeners stay.
cancelTimeoutsKeepListeners(s) ==
    [cancelFrom(s, 1) EXCEPT !.cancelCalls = IF @ = "never" THEN "once" ELSE "again"]

\* cancelTimeouts that also aborts the request on every call.
cancelTimeoutsAborting(s) ==
    [unhandleAll(cancelFrom(s, 1)) EXCEPT
        !.cancelCalls = IF @ = "never" THEN "once" ELSE "again",
        !.log = Append(@, AbortEntry)]

\* for (const cancel of cancelers) cancel(); unhandleAll();
cancelTimeouts(s) ==
    [unhandleAll(cancelFrom(s, 1)) EXCEPT
        !.cancelCalls = IF @ = "never" THEN "once" ELSE "again"]

----------------------------------------------------------------------------
(* The listeners attach installs, and the emitter that runs them *)

RECURSIVE call(_, _, _)
RECURSIVE emitLoop(_, _, _, _)

\* emitter.emit(event, arg): runs a snapshot of the listeners in registration
\* order; a once-listener is removed before its function runs.
emit(s, origin, event, arg) ==
    emitLoop(s, SelectSeq(s.listeners, LAMBDA l : l.origin = origin /\ l.event = event), 1, arg)

emitLoop(s, snapshot, i, arg) ==
    IF i > Len(snapshot) THEN s
    ELSE LET l == snapshot[i]
             removed == IF l.once THEN removeListener(s, l.origin, l.event, l.fn) ELSE s
         IN  emitLoop(call(l.fn, removed, arg), snapshot, i + 1, arg)

\* request.abort()
abort(s) == [s EXCEPT !.log = Append(@, AbortEntry)]

\* timeoutHandler with the two statements swapped: abort, then emit.
timeoutHandlerAbortFirst(s, delay, event) ==
    LET error == TimeoutError(delay, event)
        aborted == abort(s)
        emitting == [aborted EXCEPT !.log = Append(@, EmitEntry(error))]
    IN  emit(emitting, "request", "error", error)

\* A breach handler that neither emits nor aborts.
timeoutHandlerSilent(s, delay, event) == s

\* request.emit('error', new TimeoutError(delay, event)); request.abort();
timeoutHandler(s, delay, event) ==
    LET error == TimeoutError(delay, event)
        emitting == [s EXCEPT !.log = Append(@, EmitEntry(error))]
    IN  abort(emit(emitting, "request", "error", error))

\* The error listener without the 'socket hang up' test.
onErrorAnyMessage(s, error) == cancelTimeouts(s)

\* request.on('error', error => { if (error.message !== 'socket hang up') cancelTimeouts(); })
onError(s, error) == IF error.message # HangUp THEN cancelTimeouts(s) ELSE s

\* once(request, 'response', response => { once(response, 'end', cancelTimeouts); })
onResponse(s) == once(s, "response", "end", Fn("cancelTimeouts"))

\* const socketTimeoutHandler = () => { timeoutHandler(delays.socket, 'socket'); }
socketTimeoutHandler(s) == timeoutHandler(s, delays["socket"], "socket")

\* const cancelTimeout = addTimeout(delay, timeoutHandler, label); once(origin, event, cancelTimeout)
armUntil(s, label, origin, event) ==
    LET armed == addTimeout(s, delays[label], label)
    IN  once(armed, origin, event, CancelFn(Len(armed.timers)))

\* The lookup listener without the error === null test.
onLookupAnyResult(s, error) == armUntil(s, "connect", "socket", "connect")

\* once(socket, 'lookup', error => { if (error === null) once(socket, 'connect', timeConnect()); })
onLookup(s, error) ==
    IF error = "null" THEN armUntil(s, "connect", "socket", "connect") ELSE s

\* once(socket, 'connect', () => { ...addTimeout(delays.secureConnect...); once(socket, 'secureConnect', cancelTimeout); })
onConnectSecure(s) == armUntil(s, "secureConnect", "socket", "secureConnect")

\* once(socket, 'connect', () => { once(request, 'upload-complete', timeRequest()); })
onConnectSend(s) == armUntil(s, "send", "request", "upload-complete")

\* once(request, 'upload-complete', () => { ...addTimeout(delays.response...); once(request, 'response', cancelTimeout); })
onUploadComplete(s) == armUntil(s, "response", "request", "response")

\* The lookup guard without the net.isIP test.
socketLookupAnyHost(s, sock) ==
    IF "lookup" \in DOMAIN delays /\ ~socketPath /\ ~sock.address
    THEN armUntil(s, "lookup", "socket", "lookup")
    ELSE s

\* The lookup branch arming its timer without registering the cancel on 'lookup'.
socketLookupNoCancel(s, sock) ==
    IF "lookup" \in DOMAIN delays /\ ~socketPath /\ ~isIP(HostOf(options)) /\ ~sock.address
    THEN addTimeout(s, delays["lookup"], "lookup")
    ELSE s

\* if (typeof delays.lookup !== 'undefined' && !socketPath && !net.isIP(hostname || host) && address undefined)
socketLookup(s, sock) ==
    IF "lookup" \in DOMAIN delays /\ ~socketPath /\ ~isIP(HostOf(options)) /\ ~sock.address
    THEN armUntil(s, "lookup", "socket", "lookup")
    ELSE s

\* if (typeof delays.connect !== 'undefined') { ... }
socketConnect(s) ==
    IF "connect" \in DOMAIN delays
    THEN IF socketPath \/ isIP(HostOf(options))
         THEN armUntil(s, "connect", "socket", "connect")
         ELSE once(s, "socket", "lookup", Fn("onLookup"))
    ELSE s

\* The secureConnect guard without the protocol test.
socketSecureConnectAnyProtocol(s) ==
    IF "secureConnect" \in DOMAIN delays
    THEN once(s, "socket", "connect", Fn("onConnectSecure"))
    ELSE s

\* if (typeof delays.secureConnect !== 'undefined' && options.protocol === 'https:')
socketSecureConnect(s) ==
    IF "secureConnect" \in DOMAIN delays /\ options.protocol = "https:"
    THEN once(s, "socket", "connect", Fn("onConnectSecure"))
    ELSE s

\* The send branch without the socket.connecting test: always armed by the socket signal.
socketSendAtSocket(s, sock) ==
    IF "send" \in DOMAIN delays
    THEN armUntil(s, "send", "request", "upload-complete")
    ELSE s

\* if (typeof delays.send !== 'undefined') { ... }
socketSend(s, sock) ==
    IF "send" \in DOMAIN delays
    THEN IF sock.connecting
         THEN once(s, "socket", "connect", Fn("onConnectSend"))
         ELSE armUntil(s, "send", "request", "upload-complete")
    ELSE s

\* The socket listener without the socket.connecting test around the connection phases.
onSocketAlwaysConnecting(s, sock) ==
    socketSend(socketSecureConnect(socketConnect(socketLookup(s, sock))), sock)

\* once(request, 'socket', socket => { ... })
onSocket(s, sock) ==
    LET connecting ==
            IF sock.connecting
            THEN socketSecureConnect(socketConnect(socketLookup(s, sock)))
            ELSE s
    IN  socketSend(connecting, sock)

call(fn, s, arg) ==
    CASE fn.name = "cancel" -> cancel(s, fn.id)
      [] fn.name = "cancelTimeouts" -> cancelTimeouts(s)
      [] fn.name = "onError" -> onError(s, arg)
      [] fn.name = "onResponse" -> onResponse(s)
      [] fn.name = "socketTimeoutHandler" -> socketTimeoutHandler(s)
      [] fn.name = "onSocket" -> onSocket(s, arg)
      [] fn.name = "onLookup" -> onLookup(s, arg)
      [] fn.name = "onConnectSecure" -> onConnectSecure(s)
      [] fn.name = "onConnectSend" -> onConnectSend(s)
      [] fn.name = "onUploadComplete" -> onUploadComplete(s)
      [] fn.name = "foreign" -> s

----------------------------------------------------------------------------
(* attach: the default export *)

\* request.on('error', ...): a persistent listener, not registered with the unhandler.
attachError(s) ==
    [s EXCEPT !.listeners = Append(@, [origin |-> "request", event |-> "error",
                                       fn |-> Fn("onError"), once |-> FALSE])]

\* The request timer armed without the typeof guard (an undefined delay arms at once).
attachRequestUnguarded(s, d) ==
    addTimeout(s, IF "request" \in DOMAIN d THEN d["request"] ELSE 0, "request")

\* if (typeof delays.request !== 'undefined') addTimeout(delays.request, timeoutHandler, 'request');
attachRequest(s, d) ==
    IF "request" \in DOMAIN d THEN addTimeout(s, d["request"], "request") ELSE s

\* request.setTimeout(delays.socket, socketTimeoutHandler); cancelers.push(() => removeListener('timeout', ...))
attachSocket(s, d) ==
    IF "socket" \in DOMAIN d
    THEN [s EXCEPT !.listeners = Append(@, [origin |-> "request", event |-> "timeout",
                                            fn |-> Fn("socketTimeoutHandler"), once |-> TRUE]),
                   !.cancelers = Append(@, Fn("removeSocketTimeout"))]
    ELSE s

\* if (typeof delays.response !== 'undefined') once(request, 'upload-complete', ...)
attachResponse(s, d) ==
    IF "response" \in DOMAIN d
    THEN once(s, "request", "upload-complete", Fn("onUploadComplete"))
    ELSE s

\* The body of attach after the reentry guard, in source order.
attach(s, d) ==
    LET a == once(attachError(s), "request", "response", Fn("onResponse"))
        b == attachSocket(attachRequest(a, d), d)
        c == once(b, "request", "socket", Fn("onSocket"))
    IN  attachResponse(c, d)

----------------------------------------------------------------------------
(* The state machine: one action per event-loop turn *)

NoOptions == [host |-> "", hostname |-> "", protocol |-> "http:"]

Init ==
    /\ delays = <<>>
    /\ options = NoOptions
    /\ socketPath \in BOOLEAN
    /\ reentry = FALSE
    /\ timers = <<>>
    /\ cancelers = <<>>
    /\ handlers = <<>>
    /\ listeners = <<>>
    /\ log = <<>>
    /\ cancelCalls = "never"
    /\ detachedBy = "none"
    /\ socket = NoSocket
    /\ noop = "none"

\* A listener of another collaborator (got itself, the caller, the agent): it
\* stays installed when it runs and does nothing to the supervisor.
ForeignListener(origin, event) ==
    [origin |-> origin, event |-> event, fn |-> Fn("foreign"), once |-> FALSE]

\* One foreign listener on every signal the supervisor listens to.
ForeignListeners ==
    << ForeignListener("request", "error"),
       ForeignListener("request", "response"),
       ForeignListener("request", "socket"),
       ForeignListener("request", "timeout"),
       ForeignListener("request", "upload-complete"),
       ForeignListener("socket", "lookup"),
       ForeignListener("socket", "connect"),
       ForeignListener("socket", "secureConnect"),
       ForeignListener("response", "end") >>

\* A request other collaborators already listen to when attach is called.
InitShared ==
    /\ delays = <<>>
    /\ options = NoOptions
    /\ socketPath \in BOOLEAN
    /\ reentry = FALSE
    /\ timers = <<>>
    /\ cancelers = <<>>
    /\ handlers = <<>>
    /\ listeners = ForeignListeners
    /\ log = <<>>
    /\ cancelCalls = "never"
    /\ detachedBy = "none"
    /\ socket = NoSocket
    /\ noop = "none"

\* Stores the record a turn produced; `by` names the turn for detachedBy.
Apply(s, by) ==
    /\ timers' = s.timers
    /\ cancelers' = s.cancelers
    /\ handlers' = s.handlers
    /\ listeners' = s.listeners
    /\ log' = s.log
    /\ cancelCalls' = s.cancelCalls
    /\ detachedBy' = IF cancelCalls = "never" /\ s.cancelCalls # "never" THEN by ELSE detachedBy

\* The default export on an unmarked request: mark it and supervise it.
AttachTo(configs) ==
    /\ ~reentry
    /\ \E d \in configs, o \in OptionsSet :
         /\ reentry' = TRUE
         /\ delays' = d
         /\ options' = o
         /\ Apply(attach(State, d), "attach")
    /\ UNCHANGED <<socketPath, socket, noop>>

Attach == AttachTo(DelayConfigs)

AttachOnePhase == AttachTo(ReentryConfigs)

AttachEveryPhase == AttachTo(EveryPhase)

\* The default export without the reentry guard: a marked request is supervised again.
ReattachUnguarded ==
    /\ reentry
    /\ noop' = IF noop = "none" THEN "returned" ELSE noop
    /\ Apply(attach(State, delays), "attach")
    /\ UNCHANGED <<delays, options, socketPath, reentry, socket>>

\* The default export as if cancelTimeouts had cleared the marker: a request
\* whose supervisor has detached is supervised again.
ReattachAfterDetach ==
    /\ reentry
    /\ noop' = IF noop = "none" THEN "returned" ELSE noop
    /\ IF cancelCalls # "never"
       THEN Apply(attach(State, delays), "attach")
       ELSE UNCHANGED <<timers, cancelers, handlers, listeners, log, cancelCalls, detachedBy>>
    /\ UNCHANGED <<delays, options, socketPath, reentry, socket>>

\* The default export on a marked request: if (Reflect.has(request, reentry)) return noop;
Reattach ==
    /\ reentry
    /\ noop' = IF noop = "none" THEN "returned" ELSE noop
    /\ UNCHANGED <<delays, options, socketPath, reentry, timers, cancelers, handlers,
                   listeners, log, cancelCalls, detachedBy, socket>>

\* const noop = () => {}: the handle a re-entrant attach returned is invoked.
InvokeNoop ==
    /\ noop # "none"
    /\ noop' = "invoked"
    /\ UNCHANGED <<delays, options, socketPath, reentry, timers, cancelers, handlers,
                   listeners, log, cancelCalls, detachedBy, socket>>

Frame == UNCHANGED <<delays, options, socketPath, reentry, socket, noop>>

\* The caller invokes the handle the first attach returned (cancelTimeouts).
CancelAll ==
    /\ reentry
    /\ Apply(cancelTimeouts(State), "cancelAll")
    /\ Frame

\* The request emits an error that the supervisor did not raise.
RequestError ==
    \E m \in ErrorMessages :
        /\ Apply(emit(State, "request", "error", OtherError(m)), "error")
        /\ Frame

\* The request is assigned its socket: 'socket' is emitted once, in a later turn
\* than the one that created the request and attached the supervisor.
RequestSocket ==
    \E sock \in Sockets :
        /\ reentry
        /\ ~socket.present
        /\ socket' = sock
        /\ Apply(emit(State, "request", "socket", sock), "socket")
        /\ UNCHANGED <<delays, options, socketPath, reentry, noop>>

SocketLookup ==
    \E error \in LookupResults :
        /\ socket.present
        /\ Apply(emit(State, "socket", "lookup", error), "lookup")
        /\ Frame

SocketConnect ==
    /\ socket.present
    /\ Apply(emit(State, "socket", "connect", "none"), "connect")
    /\ Frame

SocketSecureConnect ==
    /\ socket.present
    /\ Apply(emit(State, "socket", "secureConnect", "none"), "secureConnect")
    /\ Frame

\* The idle-timeout primitive of the connection fires: request emits 'timeout'.
RequestTimeout ==
    /\ socket.present
    /\ Apply(emit(State, "request", "timeout", "none"), "timeout")
    /\ Frame

UploadComplete ==
    /\ Apply(emit(State, "request", "upload-complete", "none"), "upload-complete")
    /\ Frame

RequestResponse ==
    /\ Apply(emit(State, "request", "response", "none"), "response")
    /\ Frame

ResponseEnd ==
    /\ Apply(emit(State, "response", "end", "none"), "end")
    /\ Frame

\* The setTimeout callback calling the handler inline instead of deferring it.
TimerElapseInline ==
    \E i \in 1..Len(timers) :
        /\ timers[i].timeout = "armed"
        /\ Apply(timeoutHandler([State EXCEPT !.timers[i].timeout = "fired",
                                              !.timers[i].immediate = "ran"],
                                timers[i].delay, timers[i].label), "breach")
        /\ UNCHANGED <<delays, options, socketPath, reentry, socket, noop>>

\* The setTimeout callback: immediate = timers.setImmediate(callback, delay, ...args)
TimerElapse ==
    \E i \in 1..Len(timers) :
        /\ timers[i].timeout = "armed"
        /\ timers' = [timers EXCEPT ![i].timeout = "fired", ![i].immediate = "queued"]
        /\ UNCHANGED <<delays, options, socketPath, reentry, cancelers, handlers, listeners,
                       log, cancelCalls, detachedBy, socket, noop>>

\* The setImmediate callback: timeoutHandler(delay, event)
RunImmediate ==
    \E i \in 1..Len(timers) :
        /\ timers[i].immediate = "queued"
        /\ Apply(timeoutHandler([State EXCEPT !.timers[i].immediate = "ran"],
                                timers[i].delay, timers[i].label), "breach")
        /\ Frame

Next ==
    \/ Attach
    \/ CancelAll
    \/ RequestError
    \/ RequestSocket
    \/ SocketLookup
    \/ SocketConnect
    \/ SocketSecureConnect
    \/ RequestTimeout
    \/ UploadComplete
    \/ RequestResponse
    \/ ResponseEnd
    \/ TimerElapse
    \/ RunImmediate

\* One supervised request: attach is called once.
Spec == Init /\ [][Next]_vars

NextReentry ==
    \/ AttachOnePhase
    \/ Reattach
    \/ InvokeNoop
    \/ CancelAll
    \/ RequestError
    \/ RequestSocket
    \/ SocketLookup
    \/ SocketConnect
    \/ SocketSecureConnect
    \/ RequestTimeout
    \/ UploadComplete
    \/ RequestResponse
    \/ ResponseEnd
    \/ TimerElapse
    \/ RunImmediate

\* The same request with attach called again and again.
SpecReentry == Init /\ [][NextReentry]_vars

\* One supervised request that shares its emitters with other listeners.
SpecShared == InitShared /\ [][Next]_vars

NextEveryPhase ==
    \/ AttachEveryPhase
    \/ CancelAll
    \/ RequestError
    \/ RequestSocket
    \/ SocketLookup
    \/ SocketConnect
    \/ SocketSecureConnect
    \/ RequestTimeout
    \/ UploadComplete
    \/ RequestResponse
    \/ ResponseEnd
    \/ TimerElapse
    \/ RunImmediate

\* One supervised request with a deadline for every phase.
SpecEveryPhase == Init /\ [][NextEveryPhase]_vars

NextOnePhase ==
    \/ AttachOnePhase
    \/ CancelAll
    \/ RequestError
    \/ RequestSocket
    \/ SocketLookup
    \/ SocketConnect
    \/ SocketSecureConnect
    \/ RequestTimeout
    \/ UploadComplete
    \/ RequestResponse
    \/ ResponseEnd
    \/ TimerElapse
    \/ RunImmediate

\* A setImmediate callback is queued: RunImmediate is enabled, and it always
\* changes the timer it runs.
ImmediateQueued == \E i \in 1..Len(timers) : timers[i].immediate = "queued"

\* One supervised request on a running event loop: the timers phase runs the
\* callback of a setTimeout whose deadline has elapsed and the check phase runs a
\* queued setImmediate, unless cleared first. Signals of the request, the socket
\* and the response may or may not come. The second condition is weak fairness
\* of RunImmediate with its enabling condition written out as ImmediateQueued.
SpecScheduled ==
    /\ Init
    /\ [][NextOnePhase]_vars
    /\ WF_vars(TimerElapse)
    /\ ([]<>(~ImmediateQueued) \/ []<><<RunImmediate>>_vars)

----------------------------------------------------------------------------
(* Vocabulary of the properties *)

\* PhaseTimer state Pending: the deadline is armed or its deferred callback is queued.
Pending(t) == t.timeout = "armed" \/ t.immediate = "queued"

PendingTimers == {i \in 1..Len(timers) : Pending(timers[i])}

TimersOf(label) == {i \in 1..Len(timers) : timers[i].label = label}

\* The TimeoutErrors emitted on the request's error channel so far.
Emitted == {log[i].error : i \in {j \in 1..Len(log) : log[j].op = "emit"}}

EmittedPhases == {e.event : e \in Emitted}

Detached == cancelCalls # "never"

ListenersOn(origin, event) ==
    SelectSeq(listeners, LAMBDA l : l.origin = origin /\ l.event = event)

HasListener(fn) == \E i \in 1..Len(listeners) : listeners[i].fn = fn

\* How many times the closure fn is installed as a listener.
Installed(fn) == Len(SelectSeq(listeners, LAMBDA l : l.fn = fn))

\* The one listener attach installs with request.on: it is never removed.
ErrorListener ==
    [origin |-> "request", event |-> "error", fn |-> Fn("onError"), once |-> FALSE]

----------------------------------------------------------------------------
(* Properties *)

\* C1: once cancelTimeouts (the handle attach returned) has run, by cancelAll or
\* by any other route, the sequence of TimeoutErrors emitted on the request never
\* changes again, whatever signal, timer elapse or deferred callback follows.
C1_NoTimeoutErrorAfterCancelAll == [][Detached => log' = log]_vars

\* C1 witness: cancelAll ran while the request timer's deadline had elapsed and
\* its deferred callback was queued; the callback was cleared and nothing emitted.
C1_Witness ==
    /\ detachedBy = "cancelAll"
    /\ log = <<>>
    /\ \E i \in TimersOf("request") :
         timers[i].timeout = "fired" /\ timers[i].immediate = "cleared"

C3_CancelAllIdempotent ==
    Detached =>
        LET again == cancelTimeouts(State)
        IN  /\ again.timers = timers
            /\ again.cancelers = cancelers
            /\ again.listeners = listeners
            /\ again.handlers = handlers
            /\ again.log = log

\* C3 witness: cancelTimeouts has run a second time on a supervisor that had
\* armed a timer, first through cancelAll.
C3_Witness ==
    /\ cancelCalls = "again"
    /\ detachedBy = "cancelAll"
    /\ Len(timers) > 0

\* C4: attaching again to a marked request, and invoking the handle it returns,
\* change nothing of the supervisor: still one 'error' listener of the attach, no
\* closure installed twice (exactly one 'socket' listener until the socket
\* arrives or the supervisor detaches) and at most one timer per phase.
C4_SecondAttachHasNoEffect ==
    /\ [](reentry =>
            /\ Len(ListenersOn("request", "error")) = 1
            /\ \A i \in 1..Len(listeners) : Installed(listeners[i].fn) = 1
            /\ (~socket.present /\ ~Detached => Len(ListenersOn("request", "socket")) = 1)
            /\ \A p \in Phases : Cardinality(TimersOf(p)) <= 1)
    /\ [][noop' # noop =>
            UNCHANGED <<delays, options, reentry, timers, cancelers, handlers,
                        listeners, log, cancelCalls>>]_vars

\* C4 witness: the handle of a second attach was invoked while a timer of the
\* first attach was pending and its 'socket' listener installed; both still are.
C4_Witness ==
    /\ noop = "invoked"
    /\ ~Detached
    /\ PendingTimers # {}
    /\ Len(ListenersOn("request", "socket")) = 1

\* C5: after cancelTimeouts has run no timer is created or changed and no
\* listener or registration is added, whatever signal is delivered afterwards.
C5_NothingArmedAfterCancel ==
    [][Detached =>
         /\ timers' = timers
         /\ cancelers' = cancelers
         /\ listeners' = listeners
         /\ handlers' = handlers]_vars

\* C5 witness: cancelAll ran before the socket signal; a connecting socket to a
\* literal IP was then delivered with a connect delay configured, and no timer
\* exists and no listener sits on the socket.
C5_Witness ==
    /\ detachedBy = "cancelAll"
    /\ socket.present /\ socket.connecting
    /\ "connect" \in DOMAIN delays
    /\ isIP(HostOf(options))
    /\ timers = <<>>
    /\ Len(ListenersOn("socket", "connect")) = 0

\* C6: every timer ever created and every TimeoutError ever emitted belongs to a
\* phase the DelayConfig defines and carries that phase's delay; a request delay,
\* 0 included, arms the request timer at attach.
C6_NoTimerForAbsentPhase ==
    /\ \A i \in 1..Len(timers) :
         /\ timers[i].label \in DOMAIN delays
         /\ timers[i].delay = delays[timers[i].label]
    /\ EmittedPhases \subseteq DOMAIN delays
    /\ (reentry /\ "request" \in DOMAIN delays => TimersOf("request") # {})

\* C6 witness: a secureConnect delay of 0 armed a timer that breached.
C6_Witness ==
    /\ DOMAIN delays = {"secureConnect"}
    /\ delays["secureConnect"] = 0
    /\ TimeoutError(0, "secureConnect") \in Emitted

\* C7: whatever the supervisor has done to the request is nothing, or one
\* TimeoutError (code ETIMEDOUT, the phase of a timer whose deferred callback ran
\* or the socket phase, the threshold configured for that phase) followed by one
\* abort; and a timer whose deferred callback ran has emitted its error.
C7_EmitThenAbort ==
    /\ \/ log = <<>>
       \/ /\ Len(log) = 2
          /\ log[1].op = "emit"
          /\ log[2] = AbortEntry
          /\ log[1].error.name = "TimeoutError"
          /\ log[1].error.code = "ETIMEDOUT"
          /\ log[1].error.event \in DOMAIN delays
          /\ log[1].error.threshold = delays[log[1].error.event]
          /\ \/ log[1].error.event = "socket"
             \/ \E i \in TimersOf(log[1].error.event) : timers[i].immediate = "ran"
    /\ \A i \in 1..Len(timers) :
         timers[i].immediate = "ran" => timers[i].label \in EmittedPhases

\* C7 witness: the connect timer breached with the largest threshold.
C7_Witness ==
    /\ Len(log) = 2
    /\ log[1] = EmitEntry(TimeoutError(MaxDelay, "connect"))
    /\ log[2] = AbortEntry

\* C8: the turn in which a deadline elapses emits nothing and only queues the
\* deferred callback; a callback runs only in a turn that found it queued; and a
\* queued callback exists only while the supervisor is attached and the listener
\* for the timer's canceling signal is still installed (the request timer has none).
C8_BreachDeferredPastTurn ==
    /\ [](\A i \in 1..Len(timers) :
            timers[i].immediate = "queued" =>
                /\ ~Detached
                /\ timers[i].label \notin EmittedPhases
                /\ (timers[i].label = "request" \/ HasListener(CancelFn(i))))
    /\ [][\A i \in 1..Len(timers) :
            /\ (timers[i].timeout = "armed" /\ timers'[i].timeout = "fired" => log' = log)
            /\ (timers[i].immediate # "ran" /\ timers'[i].immediate = "ran" =>
                    timers[i].immediate = "queued")]_vars

\* C8 witness: the lookup signal was delivered after the lookup deadline elapsed
\* and before its deferred callback ran; the callback was cleared, nothing emitted.
C8_Witness ==
    /\ ~Detached
    /\ log = <<>>
    /\ \E i \in TimersOf("lookup") :
         timers[i].timeout = "fired" /\ timers[i].immediate = "cleared"

\* True of a target for which the lookup phase does not apply.
NoLookupPhase == socketPath \/ isIP(HostOf(options))

\* C9: for a literal-IP target or a unix-socket path no lookup timer is ever
\* created and no 'lookup' TimeoutError emitted; for any other target with a
\* lookup delay, a connecting socket without an address arms the lookup timer,
\* and when its deferred callback runs the 'lookup' TimeoutError is emitted.
C9_LookupOnlyForHostNames ==
    /\ (NoLookupPhase => TimersOf("lookup") = {} /\ "lookup" \notin EmittedPhases)
    /\ (/\ ~Detached /\ reentry /\ "lookup" \in DOMAIN delays /\ ~NoLookupPhase
        /\ socket.present /\ socket.connecting /\ ~socket.address
        => TimersOf("lookup") # {})
    /\ \A i \in TimersOf("lookup") :
         timers[i].immediate = "ran" =>
             TimeoutError(delays["lookup"], "lookup") \in Emitted

\* C9 witness: the lookup timer of a host-name target breached.
C9_Witness ==
    /\ HostOf(options) = "example.com"
    /\ \E i \in TimersOf("lookup") : timers[i].immediate = "ran"
    /\ "lookup" \in EmittedPhases

\* True once the request got a socket that was already connected.
Reused == socket.present /\ ~socket.connecting

\* C10 (as claimed): on a reused connection no lookup or connect timer is armed
\* and only send, response and request TimeoutErrors are emitted.
C10_OnlySendResponseRequest ==
    Reused =>
        /\ TimersOf("lookup") = {} /\ TimersOf("connect") = {}
        /\ EmittedPhases \subseteq {"send", "response", "request"}

\* C10 (amended): on a reused connection no lookup, connect or secureConnect timer
\* is armed and only send, response, request and socket TimeoutErrors are emitted.
C10_OnlySendResponseRequestSocket ==
    Reused =>
        /\ TimersOf("lookup") = {} /\ TimersOf("connect") = {}
        /\ TimersOf("secureConnect") = {}
        /\ EmittedPhases \subseteq {"send", "response", "request", "socket"}

\* C10 witness: the send timer breached on a reused connection.
C10_Witness == Reused /\ EmittedPhases = {"send"}

\* C11: when the response's end signal detached the supervisor, no timer is
\* pending and no TimeoutError has been or is ever emitted, whatever deadline
\* armed earlier (the request timer included) elapses afterwards.
C11_NothingAfterResponseEnd ==
    detachedBy = "end" => PendingTimers = {} /\ log = <<>>

\* C11 witness: the response ended while the request timer was armed; the end
\* signal cleared it.
C11_Witness ==
    /\ detachedBy = "end"
    /\ \E i \in TimersOf("request") : timers[i].timeout = "cleared"

\* C12: when a request error other than the benign hang-up detached the
\* supervisor, no timer is pending, the idle-timeout handler is removed and no
\* TimeoutError has been or is ever emitted.
C12_NothingAfterError ==
    detachedBy = "error" =>
        /\ PendingTimers = {}
        /\ ~HasListener(Fn("socketTimeoutHandler"))
        /\ log = <<>>

\* C12 witness: an error detached a supervisor with a socket delay after the
\* socket had been assigned.
C12_Witness ==
    /\ detachedBy = "error"
    /\ "socket" \in DOMAIN delays
    /\ socket.present

\* The listeners of other collaborators, in registration order.
Foreign == SelectSeq(listeners, LAMBDA l : l.fn = Fn("foreign"))

\* C13: whatever the supervisor does (cancelAll, cancellation by response end, by
\* an error or by a breach, a canceling signal), the listeners other
\* collaborators registered on the request, the socket and the response stay
\* as they were, the other 'timeout' listener of the request included; and once
\* the supervisor is detached its own idle-timeout handler is not registered.
C13_OnlyOwnListenersRemoved ==
    /\ Foreign = ForeignListeners
    /\ (Detached => ~HasListener(Fn("socketTimeoutHandler")))

\* C13 witness: the response ended with a socket delay configured; the
\* supervisor's idle-timeout handler is gone and the foreign one still there.
C13_Witness ==
    /\ detachedBy = "end"
    /\ "socket" \in DOMAIN delays
    /\ ListenersOn("request", "timeout") = <<ForeignListener("request", "timeout")>>

\* C14: with a connect delay and a connecting socket, a literal-IP or
\* socket-path target has its connect timer armed by the socket signal; any
\* other target has none before a lookup signal was delivered, a lookup signal
\* carrying an error arms nothing and one reporting success arms it. A pending
\* connect timer always has its cancel installed on the socket's connect signal,
\* and delivering that signal leaves no connect timer pending and emits nothing.
C14_ConnectTimer ==
    /\ (/\ ~Detached /\ "connect" \in DOMAIN delays /\ NoLookupPhase
        /\ socket.present /\ socket.connecting
        => TimersOf("connect") # {})
    /\ (~NoLookupPhase /\ HasListener(Fn("onLookup")) => TimersOf("connect") = {})
    /\ Len(emit(State, "socket", "lookup", "ENOTFOUND").timers) = Len(timers)
    /\ (HasListener(Fn("onLookup")) =>
            LET found == emit(State, "socket", "lookup", "null")
            IN  \E i \in 1..Len(found.timers) :
                    found.timers[i].label = "connect" /\ Pending(found.timers[i]))
    /\ \A i \in TimersOf("connect") : Pending(timers[i]) => HasListener(CancelFn(i))
    /\ LET connected == emit(State, "socket", "connect", "none")
       IN  /\ \A i \in TimersOf("connect") : ~Pending(connected.timers[i])
           /\ connected.log = log

\* C14 witness: for a host-name target a successful lookup armed the connect
\* timer and the connect signal cleared it before it breached.
C14_Witness ==
    /\ ~Detached
    /\ ~NoLookupPhase
    /\ log = <<>>
    /\ \E i \in TimersOf("connect") : timers[i].timeout = "cleared"

\* C15: a secureConnect timer exists only for protocol https on a connecting
\* socket whose connect signal has been delivered, and that signal arms it; while
\* pending its cancel is installed on the socket's secureConnect signal, and
\* delivering that signal leaves no secureConnect timer pending and emits
\* nothing; without a deferred callback that ran no 'secureConnect' error exists.
C15_SecureConnectTimer ==
    /\ (TimersOf("secureConnect") # {} =>
            /\ options.protocol = "https:"
            /\ socket.present /\ socket.connecting
            /\ ~HasListener(Fn("onConnectSecure")))
    /\ (HasListener(Fn("onConnectSecure")) =>
            LET connected == emit(State, "socket", "connect", "none")
            IN  \E i \in 1..Len(connected.timers) :
                    /\ connected.timers[i].label = "secureConnect"
                    /\ Pending(connected.timers[i]))
    /\ \A i \in TimersOf("secureConnect") :
            Pending(timers[i]) => HasListener(CancelFn(i))
    /\ LET secured == emit(State, "socket", "secureConnect", "none")
       IN  /\ \A i \in TimersOf("secureConnect") : ~Pending(secured.timers[i])
           /\ secured.log = log
    /\ ("secureConnect" \in EmittedPhases =>
            \E i \in TimersOf("secureConnect") : timers[i].immediate = "ran")

\* C15 witness: the secureConnect signal arrived before the threshold: the timer
\* was cleared while still armed and nothing was emitted.
C15_Witness ==
    /\ ~Detached
    /\ log = <<>>
    /\ \E i \in TimersOf("secureConnect") :
         timers[i].timeout = "cleared" /\ timers[i].immediate = "unset"

\* C16 (as claimed): a send timer is created only in the turn that delivers the
\* request's upload-complete signal, so none is pending before that signal.
C16_SendArmedOnUploadComplete ==
    [][TimersOf("send")' # TimersOf("send") => UploadComplete]_vars

\* C16 (amended): a send timer is created only by the socket signal of a socket
\* that is already connected or by the connect signal of a connecting socket;
\* an already connected socket with a send delay has one; while pending its
\* cancel is installed on the request's upload-complete signal, and delivering
\* that signal leaves no send timer pending and emits nothing.
C16_SendArmedAtConnection ==
    /\ [][TimersOf("send")' # TimersOf("send") =>
            \/ RequestSocket /\ ~socket'.connecting
            \/ SocketConnect /\ socket.connecting]_vars
    /\ [](/\ ~Detached /\ "send" \in DOMAIN delays
          /\ socket.present /\ ~socket.connecting
          => TimersOf("send") # {})
    /\ [](\A i \in TimersOf("send") : Pending(timers[i]) => HasListener(CancelFn(i)))
    /\ [](LET uploaded == emit(State, "request", "upload-complete", "none")
          IN  /\ \A i \in TimersOf("send") : ~Pending(uploaded.timers[i])
              /\ uploaded.log = log)

\* C16 witness: on a connecting socket the connect signal armed the send timer
\* and upload-complete cleared it before it breached.
C16_Witness ==
    /\ ~Detached
    /\ log = <<>>
    /\ socket.connecting
    /\ \E i \in TimersOf("send") : timers[i].timeout = "cleared"

\* C17: once the request's response signal has been delivered to an attached
\* supervisor (its response listener has run), no response timer is pending.
C17_NoResponseTimerAfterResponse ==
    reentry /\ ~HasListener(Fn("onResponse")) =>
        \A i \in TimersOf("response") : ~Pending(timers[i])

\* C18: a pending lookup timer always has its cancel installed on the socket's
\* lookup signal; delivering that signal, reporting success or an error, leaves
\* no lookup timer pending and emits nothing; and a 'lookup' TimeoutError exists
\* only if a lookup timer's deferred callback ran.
C18_LookupCanceledByAnyLookup ==
    /\ \A i \in TimersOf("lookup") : Pending(timers[i]) => HasListener(CancelFn(i))
    /\ \A result \in LookupResults :
         LET looked == emit(State, "socket", "lookup", result)
         IN  /\ \A i \in TimersOf("lookup") : ~Pending(looked.timers[i])
             /\ looked.log = log
    /\ ("lookup" \in EmittedPhases =>
            \E i \in TimersOf("lookup") : timers[i].immediate = "ran")

\* C18 witness: a lookup signal arrived while the lookup timer was armed and
\* cleared it; nothing was emitted.
C18_Witness ==
    /\ ~Detached
    /\ log = <<>>
    /\ \E i \in TimersOf("lookup") :
         timers[i].timeout = "cleared" /\ timers[i].immediate = "unset"

\* What the request's 'socket hang up' error makes of the current state.
HungUp == emit(State, "request", "error", OtherError(HangUp))

\* C19: in every reachable state, delivering the request error 'socket hang up'
\* changes nothing in the supervisor: timers, cancelers, listeners,
\* registrations and emitted errors are the same after as before, and the
\* supervisor is not detached by it.
C19_HangUpChangesNothing == HungUp = State

\* C19 witness: an attached supervisor with a deferred breach queued and its
\* listeners installed: after the hang-up the breach is still queued.
C19_Witness ==
    /\ ~Detached
    /\ Len(listeners) > 1
    /\ \E i \in 1..Len(timers) :
         timers[i].immediate = "queued" /\ HungUp.timers[i].immediate = "queued"

\* C20: with a deadline on every phase and in every interleaving of signals,
\* deadlines and deferred callbacks, at most one TimeoutError is emitted on the
\* request: whatever the supervisor did is nothing, or one emit and one abort.
C20_AtMostOneTimeoutError ==
    /\ Len(SelectSeq(log, LAMBDA e : e.op = "emit")) <= 1
    /\ Len(SelectSeq(log, LAMBDA e : e = AbortEntry)) <= 1
    /\ Cardinality({i \in 1..Len(timers) : timers[i].immediate = "ran"}) <= 1

\* C20 witness: a timer breached while the request timer's deadline had elapsed
\* too and its deferred callback was queued; the breach cleared that callback.
C20_Witness ==
    /\ detachedBy = "breach"
    /\ \E i \in 1..Len(timers) : timers[i].immediate = "ran"
    /\ \E j \in TimersOf("request") :
         timers[j].timeout = "fired" /\ timers[j].immediate = "cleared"

\* A timer that one of its cancelers has cleared.
Canceled(t) == t.timeout = "cleared" \/ t.immediate = "cleared"

\* A TimeoutError was emitted on the request and the request then aborted.
Breached ==
    \E k \in 1..Len(log) :
        /\ log[k].op = "emit"
        /\ log[k].error.name = "TimeoutError"
        /\ k < Len(log)
        /\ log[k + 1] = AbortEntry

\* C21: on a running event loop, whenever a timer of addTimeout is pending for a
\* phase, eventually a TimeoutError has been emitted on the request and the
\* request aborted, or the timer has been cleared (by its canceling signal, the
\* response's end, a request error other than the hang-up, or cancelAll).
C21_BreachNeverSwallowed ==
    \A p \in Phases :
        (\E i \in TimersOf(p) : Pending(timers[i]))
            ~> (Breached \/ \A i \in TimersOf(p) : Canceled(timers[i]))

\* C21 witness: the response timer was armed, nothing canceled it, and its
\* breach was emitted and the request aborted.
C21_Witness ==
    /\ Breached
    /\ detachedBy = "breach"
    /\ \E i \in TimersOf("response") :
         timers[i].immediate = "ran" /\ ~Canceled(timers[i])

\* C22: the reentry marker, once set, stays set in every later step (cancelAll,
\* the response's end, an error and a breach included); a detached supervisor's
\* request is marked; and once the supervisor has detached no step, a later
\* attach and the handle it returns included, installs a listener, registers a
\* handler, creates or changes a timer, or emits anything.
C22_MarkerNeverCleared ==
    /\ [][reentry => reentry']_vars
    /\ [](Detached => reentry)
    /\ [][Detached =>
            UNCHANGED <<reentry, delays, options, timers, cancelers, handlers,
                        listeners, log>>]_vars

\* C22 witness: attach was called again on a request whose supervisor cancelAll
\* had detached and the handle it returned was invoked: the marker is set, only
\* the 'error' listener is installed and the request timer stays cleared.
C22_Witness ==
    /\ reentry
    /\ detachedBy = "cancelAll"
    /\ noop = "invoked"
    /\ listeners = <<ErrorListener>>
    /\ \E i \in TimersOf("request") : Canceled(timers[i])

====
